---- MODULE Spec2Model ----
(***************************************************************************)
(* Drone routing (TehmoorG/drone-route): graph construction over the       *)
(* facility table, insertion of the Start / End nodes and shortest-path    *)
(* routing, for the simple and the advanced (segmented) weighting.         *)
(*                                                                         *)
(* Geometry.  Coordinates are integers counting 1/64 degree (every such    *)
(* coordinate is an exact float); a point is <<longitude, latitude>>, the  *)
(* order of shapely's Point(lon, lat) and of the graph's pos attribute.    *)
(* Facilities lie on a lattice of two parallels (5.375 N and 5.4375 N)     *)
(* with columns 1/16 degree apart, from 0.1875 W eastwards.  The start     *)
(* and end coordinates are typed by the user; get_coordinates accepts      *)
(* them inside lat_range x lon_range only, which here are the points of    *)
(* the parallel 5.484375 N, 1/64 degree east of a facility column.         *)
(* Regions are axis-aligned rectangles [x1,x2] x [y1,y2] with integer      *)
(* corners, a road being a rectangle of zero width or height.  geopy's     *)
(* geodesic distance (WGS-84) is tabulated in centimetres, rounded up, for *)
(* the three parallels; a range is given in centimetres too, so that       *)
(* "distance <= range" is decided as the code decides it.                  *)
(*                                                                         *)
(* Control flow.  The actions follow main() of                             *)
(* scripts/generate_advanced_route.py.  With policy = "simple" the same    *)
(* steps call the functions of simple_route_utils, as the simple script    *)
(* (imported by tests/test_generate_route.py) does.  The data files are    *)
(* taken to be present and readable; otherwise main() ends with sys.exit   *)
(* before a graph is loaded or built.                                      *)
(*                                                                         *)
(* Specifications.  Spec is one run of the script with no pickled graph    *)
(* at graph_path.  SpecRerun adds further runs on the same data files,     *)
(* SpecCached further runs that find other zone files under map/ (the      *)
(* script reads both files anew in every run); both load the graph the     *)
(* first run pickled.  SpecWeights is calculate_edge_weight on its own,    *)
(* for lines of up to WeightSpan degrees.  SpecWide is the construction    *)
(* of the graph for facilities up to three degrees apart, whose lines are  *)
(* cut into segments.                                                      *)
(*                                                                         *)
(* Weights.  The segmented weighting works in doubles: the cut points of   *)
(* a line, the lengths of the segments, their products with the factors    *)
(* and the sum are computed here operation by operation with the rounding  *)
(* of IEEE-754 binary64, in the order of the code.  A line shorter than    *)
(* one degree has no segment and weighs the int 0 of Python's sum().       *)
(* sum() adds doubles one after the other up to CPython 3.11 and with a    *)
(* compensation for the rounding errors from CPython 3.12 on; the scripts  *)
(* ask for neither, and python_sum is the one of the interpreter that      *)
(* runs them.                                                              *)
(***************************************************************************)
EXTENDS Integers, Sequences, FiniteSets, TLC

\* ------------------------------------------------------------------ bounds
\* facility columns 0..MaxLon (steps of 1/16 degree along the two parallels)
MaxLon == 2
\* rows of the facility table
MaxFacilities == 3
\* longest line, in degrees of longitude, given to calculate_edge_weight on its own
WeightSpan == 3

\* -------------------------------------------------------- program constants
\* simple_route_utils.create_and_save_graph: edge_weight *= 10
BuildAvoidanceFactor == 10
\* simple_route_utils.add_node_to_graph: edge_weight *= 3
InsertAvoidanceFactor == 3
\* advanced_route_utils.calculate_segment_weight, factors in tenths
RoadTenths == 15
BuildingTenths == 10
OpenSpaceTenths == 8
AvoidanceTenths == 30

VARIABLES
    pc,                 \* position in main()
    python_sum,         \* how the interpreter's sum() adds doubles
    policy,             \* "simple" | "advanced": which script / utils module runs
    drone_range,        \* drone_range_km, in centimetres
    health_facilities,  \* health_facilities_gdf: sequence of rows, index = position - 1
    no_fly_zones,       \* no_fly_zones_gdf: set of rectangles
    avoidance_zones,    \* avoidance_zones_gdf
    roads,              \* roads_gdf
    buildings,          \* buildings_gdf
    open_space,         \* open_space_gdf
    graph_file,         \* the pickle at graph_path: <<>> (no file) or <<graph>>
    G,                  \* the networkx graph (empty before it is built)
    start_in,           \* <<lat, lon>> entered for the start, or Nothing
    end_in,             \* <<lat, lon>> entered for the end, or Nothing
    start_node,         \* result of add_node_to_graph(..., "Start", ...)
    end_node,           \* result of add_node_to_graph(..., "End", ...)
    shortest_path,      \* nx.dijkstra_path result, or Nothing
    route_csv,          \* rows written by save_route_to_csv, or Nothing
    outcome,            \* what main() reported
    weighed_line,       \* calculate_edge_weight: its argument `line`, or Nothing
    weighed_segments,   \* calculate_edge_weight: segments = segment_edge(line)
    total_weight        \* calculate_edge_weight: the value returned

vars == <<pc, python_sum, policy, drone_range, health_facilities, no_fly_zones, avoidance_zones,
          roads, buildings, open_space, graph_file, G, start_in, end_in, start_node, end_node,
          shortest_path, route_csv, outcome, weighed_line, weighed_segments, total_weight>>

\* the variables of a call of calculate_edge_weight looked at on its own
weight_vars == <<weighed_line, weighed_segments, total_weight>>

\* Python's None where a node index is expected (add_node_to_graph's "not added")
None == -1
\* no path (NetworkXNoPath), no rows written, nothing entered yet
Nothing == <<>>

\* ---------------------------------------------------------------- geometry
Min2(a, b) == IF a <= b THEN a ELSE b
Max2(a, b) == IF a >= b THEN a ELSE b

RECURSIVE ISqrtIter(_, _, _)
ISqrtIter(n, lo, hi) ==
    IF lo >= hi THEN lo
    ELSE LET mid == (lo + hi + 1) \div 2
         IN  IF mid * mid <= n THEN ISqrtIter(n, mid, hi) ELSE ISqrtIter(n, lo, mid - 1)

\* floor of the square root
ISqrt(n) == ISqrtIter(n, 0, 46340)

\* shapely Point(lon, lat)
Point(lon, lat) == <<lon, lat>>

\* row.geometry of a facility row: gpd.points_from_xy(longitude, latitude)
Geometry(row) == Point(row.longitude, row.latitude)

\* shapely LineString([a, b])
LineString(a, b) == [a |-> a, b |-> b]

Rect(x1, y1, x2, y2) == [x1 |-> x1, y1 |-> y1, x2 |-> x2, y2 |-> y2]

\* coordinate units in one degree
UnitsPerDegree == 64

\* geodesic distances on the WGS-84 ellipsoid in centimetres, rounded up,
\* between a point of parallel south and a point of parallel north (in 1/64
\* degree: 344 = 5.375 N, 348 = 5.4375 N, 351 = 5.484375 N); entry dlon + 1 is
\* the distance for a difference in longitude of dlon / 64 degree
GeodesicTable(south, north) ==
    CASE south = 344 /\ north = 344 ->
           <<0, 173177, 346354, 519531, 692708, 865885, 1039062, 1212239, 1385416,
             1558593, 1731770, 1904947, 2078124, 2251301, 2424478, 2597655, 2770832>>
      [] south = 344 /\ north = 348 ->
           <<691151, 712515, 773071, 864624, 978512, 1107868, 1247890, 1395372, 1548183,
             1704891, 1864514, 2026362, 2189942, 2354894, 2520949, 2687901, 2855594>>
      [] south = 344 /\ north = 351 ->
           <<1209515, 1221848, 1258120, 1316355, 1393803, 1487464, 1594485, 1712363, 1839011,
             1972740, 2112206, 2256346, 2404319, 2555460, 2709237, 2865227, 3023088>>
      [] south = 348 /\ north = 348 ->
           <<0, 173160, 346319, 519478, 692637, 865797, 1038956, 1212115, 1385274,
             1558433, 1731593, 1904752, 2077911, 2251070, 2424230, 2597389, 2770548>>
      [] south = 348 /\ north = 351 ->
           <<518365, 546520, 623401, 733852, 865107, 1009082, 1161054, 1318260, 1479033,
             1642324, 1807452, 1973955, 2141514, 2309897, 2478938, 2648510, 2818518>>
      [] south = 351 /\ north = 351 ->
           <<0, 173146, 346292, 519438, 692584, 865729, 1038875, 1212021, 1385167,
             1558312, 1731458, 1904604, 2077750, 2250895, 2424041, 2597187, 2770333>>

\* the step between the columns of the wide lattice: 1.5 degree
WideLonStep == 96
\* the northern parallel of the wide lattice (0.5 N); the southern is the equator
WideLat == 32

\* the same distances between points of the wide lattice (parallels 0 and
\* 0.5 N); entry dlon / WideLonStep + 1 is the distance for a difference in
\* longitude of dlon / 64 degree
WideGeodesicTable(south, north) ==
    CASE south = 0 /\ north = 0 -> <<0, 16697924, 33395848>>
      [] south = 0 /\ north = WideLat -> <<5528716, 17589211, 33849981>>
      [] south = WideLat /\ north = WideLat -> <<0, 16697293, 33394584>>

\* geopy geodesic((lat1, lon1), (lat2, lon2)).km, in centimetres.  Arguments are
\* <<lat, lon>> pairs, the order geopy takes them in.  The distance depends on
\* the two latitudes and on the difference of the longitudes.
Geodesic(p, q) ==
    LET dlon == IF p[2] >= q[2] THEN p[2] - q[2] ELSE q[2] - p[2]
        south == Min2(p[1], q[1])
        north == Max2(p[1], q[1])
    IN  IF north <= WideLat THEN WideGeodesicTable(south, north)[(dlon \div WideLonStep) + 1]
        ELSE GeodesicTable(south, north)[dlon + 1]

\* polygon.contains(point): the point lies in the interior (a boundary point is
\* not contained)
RegionContains(r, p) ==
    /\ r.x1 < p[1] /\ p[1] < r.x2
    /\ r.y1 < p[2] /\ p[2] < r.y2

Cross(a, b, c) == (b[1] - a[1]) * (c[2] - a[2]) - (b[2] - a[2]) * (c[1] - a[1])

\* geometry.intersects(segment a-b): the closed segment and the closed rectangle
\* share a point.  Separating axes: x, y and the normal of the segment.
SegIntersectsRect(a, b, r) ==
    /\ Max2(a[1], b[1]) >= r.x1 /\ Min2(a[1], b[1]) <= r.x2
    /\ Max2(a[2], b[2]) >= r.y1 /\ Min2(a[2], b[2]) <= r.y2
    /\ LET c == {Cross(a, b, <<r.x1, r.y1>>), Cross(a, b, <<r.x1, r.y2>>),
                 Cross(a, b, <<r.x2, r.y1>>), Cross(a, b, <<r.x2, r.y2>>)}
       IN  ~ ((\A v \in c : v > 0) \/ (\A v \in c : v < 0))

\* gdf.contains(point).any()
Contains(gdf, p) == \E r \in gdf : RegionContains(r, p)

\* gdf.intersects(line).any()
Intersects(gdf, line) == \E r \in gdf : SegIntersectsRect(line.a, line.b, r)

\* ------------------------------------------------------- IEEE-754 doubles
\* shapely, GEOS and Python compute the segments and their weights in doubles.
\* A finite double is held as [neg, mant, exp], the number (-1)^neg * mant *
\* 2^exp.  mant is a natural number, written as the sequence of its digits to
\* the base 2^LimbBits, least significant first and without leading zeros; it
\* is odd, and 0.0 is [neg |-> FALSE, mant |-> <<>>, exp |-> 0].  An exact
\* intermediate result is such a record with a mantissa of any length.  An
\* operation computes the exact result and rounds it to 53 significant bits,
\* ties to even.  Coordinates in degrees and their lengths stay far from
\* overflow and underflow, and no operation here yields -0.0.
LimbBits == 13
LimbBase == 8192
Pow2 == <<1, 2, 4, 8, 16, 32, 64, 128, 256, 512, 1024, 2048, 4096, 8192>>

Limb(a, i) == IF i <= Len(a) THEN a[i] ELSE 0

RECURSIVE Trim(_)
Trim(a) ==
    IF a = <<>> THEN a
    ELSE IF a[Len(a)] = 0 THEN Trim(SubSeq(a, 1, Len(a) - 1)) ELSE a

\* the digits of a + b from digit i up to digit n, with the carry c
RECURSIVE AddFrom(_, _, _, _, _)
AddFrom(a, b, i, n, c) ==
    IF i > n THEN (IF c = 0 THEN <<>> ELSE <<c>>)
    ELSE <<(Limb(a, i) + Limb(b, i) + c) % LimbBase>>
           \o AddFrom(a, b, i + 1, n, (Limb(a, i) + Limb(b, i) + c) \div LimbBase)

\* a + b, exact
BigAdd(a, b) == AddFrom(a, b, 1, IF Len(a) >= Len(b) THEN Len(a) ELSE Len(b), 0)

\* the digits of a - b from digit i up, with the borrow br
RECURSIVE SubFrom(_, _, _, _)
SubFrom(a, b, i, br) ==
    IF i > Len(a) THEN <<>>
    ELSE IF a[i] - Limb(b, i) - br < 0
         THEN <<a[i] - Limb(b, i) - br + LimbBase>> \o SubFrom(a, b, i + 1, 1)
    ELSE <<a[i] - Limb(b, i) - br>> \o SubFrom(a, b, i + 1, 0)

\* a - b for natural numbers a >= b, exact
BigSub(a, b) == Trim(SubFrom(a, b, 1, 0))

RECURSIVE CmpFrom(_, _, _)
CmpFrom(a, b, i) ==
    IF i = 0 THEN 0
    ELSE IF a[i] > b[i] THEN 1
    ELSE IF a[i] < b[i] THEN -1
    ELSE CmpFrom(a, b, i - 1)

\* 1, 0, -1 as a > b, a = b, a < b
BigCmp(a, b) ==
    IF Len(a) > Len(b) THEN 1
    ELSE IF Len(a) < Len(b) THEN -1
    ELSE CmpFrom(a, b, Len(a))

RECURSIVE Conv(_, _, _, _, _)
Conv(a, b, k, i, hi) ==
    IF i > hi THEN 0 ELSE a[i] * b[k + 1 - i] + Conv(a, b, k, i + 1, hi)

RECURSIVE MulFrom(_, _, _, _)
MulFrom(a, b, k, c) ==
    IF k > Len(a) + Len(b) - 1 THEN (IF c = 0 THEN <<>> ELSE <<c>>)
    ELSE LET lo == IF k + 1 - Len(b) > 1 THEN k + 1 - Len(b) ELSE 1
             hi == IF k < Len(a) THEN k ELSE Len(a)
             t == Conv(a, b, k, lo, hi) + c
         IN  <<t % LimbBase>> \o MulFrom(a, b, k + 1, t \div LimbBase)

\* a * b, exact
BigMul(a, b) == IF a = <<>> \/ b = <<>> THEN <<>> ELSE MulFrom(a, b, 1, 0)

\* the digits of a * m from digit i up, for a digit m, with the carry c
RECURSIVE ScaleFrom(_, _, _, _)
ScaleFrom(a, m, i, c) ==
    IF i > Len(a) THEN (IF c = 0 THEN <<>> ELSE <<c>>)
    ELSE <<(a[i] * m + c) % LimbBase>> \o ScaleFrom(a, m, i + 1, (a[i] * m + c) \div LimbBase)

\* a * 2^k
BigShl(a, k) ==
    IF a = <<>> THEN a
    ELSE [i \in 1..(k \div LimbBits) |-> 0] \o ScaleFrom(a, Pow2[(k % LimbBits) + 1], 1, 0)

RECURSIVE ShrFrom(_, _, _)
ShrFrom(a, r, i) ==
    IF i > Len(a) THEN <<>>
    ELSE <<(a[i] \div Pow2[r + 1]) + (Limb(a, i + 1) % Pow2[r + 1]) * Pow2[LimbBits - r + 1]>>
           \o ShrFrom(a, r, i + 1)

\* floor(a / 2^k)
BigShr(a, k) == Trim(ShrFrom(a, k % LimbBits, (k \div LimbBits) + 1))

\* the number of binary digits of a
BitLen(a) ==
    IF a = <<>> THEN 0
    ELSE LimbBits * (Len(a) - 1) + Cardinality({j \in 1..LimbBits : Pow2[j] <= a[Len(a)]})

\* n rounded to 53 significant binary digits, to nearest, ties to even; sticky
\* says that the exact value lies above n (a remainder was cut off).  The k
\* lowest digits are cut off; Bit(j) is binary digit j of n (digit 0 is the
\* lowest), LowBitsSet(m) says that one of its m lowest digits is set.
RoundNearestEven(n, sticky) ==
    LET k == BitLen(n) - 53
        Bit(j) == (Limb(n, (j \div LimbBits) + 1) \div Pow2[(j % LimbBits) + 1]) % 2
        LowBitsSet(m) ==
            \/ \E i \in 1..(m \div LimbBits) : Limb(n, i) # 0
            \/ Limb(n, (m \div LimbBits) + 1) % Pow2[(m % LimbBits) + 1] # 0
    IN  IF k <= 0 THEN n
        ELSE BigShl(IF Bit(k - 1) = 1 /\ (sticky \/ LowBitsSet(k - 1) \/ Bit(k) = 1)
                    THEN BigAdd(BigShr(n, k), <<1>>)
                    ELSE BigShr(n, k),
                    k)

\* the record of (-1)^neg * n * 2^e: the factors 2 of n go to the exponent
\* (z low digits of n are 0, and t low binary digits)
Dyadic(neg, n, e) ==
    LET z == Cardinality({i \in 1..Len(n) : \A j \in 1..i : n[j] = 0})
        t == LimbBits * z
               + Cardinality({j \in 1..(LimbBits - 1) : Limb(n, z + 1) % Pow2[j + 1] = 0})
    IN  IF n = <<>> THEN [neg |-> FALSE, mant |-> <<>>, exp |-> 0]
        ELSE [neg |-> neg, mant |-> BigShr(n, t), exp |-> e + t]

\* a + b, exact: both mantissas are brought to the lower exponent
ExactAdd(a, b) ==
    LET e == Min2(a.exp, b.exp)
        x == BigShl(a.mant, a.exp - e)
        y == BigShl(b.mant, b.exp - e)
    IN  IF a.neg = b.neg THEN Dyadic(a.neg, BigAdd(x, y), e)
        ELSE IF BigCmp(x, y) >= 0 THEN Dyadic(a.neg, BigSub(x, y), e)
        ELSE Dyadic(b.neg, BigSub(y, x), e)

\* a - b, exact
ExactSub(a, b) == ExactAdd(a, [b EXCEPT !.neg = ~ b.neg])

\* a * b, exact
ExactMul(a, b) == Dyadic(a.neg # b.neg, BigMul(a.mant, b.mant), a.exp + b.exp)

\* 1, 0, -1 as x > 0, x = 0, x < 0; a < b is Sign(ExactSub(a, b)) < 0
Sign(x) == IF x.mant = <<>> THEN 0 ELSE IF x.neg THEN -1 ELSE 1

\* the double nearest to the exact x
Round(x) == Dyadic(x.neg, RoundNearestEven(x.mant, FALSE), x.exp)

\* the double a + b
FloatAdd(a, b) == Round(ExactAdd(a, b))

\* the double a - b
FloatSub(a, b) == Round(ExactSub(a, b))

\* the double a * b
FloatMul(a, b) == Round(ExactMul(a, b))

\* <<digit, r - digit * d>> for the greatest digit not above est whose multiple
\* of d is not above r
RECURSIVE Fit(_, _, _)
Fit(r, d, est) ==
    IF est = 0 THEN <<0, r>>
    ELSE IF BigCmp(ScaleFrom(d, est, 1, 0), r) <= 0
         THEN <<est, BigSub(r, ScaleFrom(d, est, 1, 0))>>
    ELSE Fit(r, d, est - 1)

\* the next quotient digit of a long division by d and the remainder it
\* leaves, for the remainder r so far with the next digit of the dividend
\* appended; the digit is guessed from the leading digits of r and d
DivDigit(r, d) ==
    Fit(r, d,
        IF Len(r) < Len(d) THEN 0
        ELSE Min2(LimbBase - 1, (Limb(r, Len(d) + 1) * LimbBase + r[Len(d)]) \div d[Len(d)]))

\* long division, digit by digit from digit i of n down: <<quotient, whether a
\* remainder is left>>.  fit is the quotient digit found last (a digit is
\* below the base) and the remainder it left.
RECURSIVE DivLimbs(_, _, _, _, _)
DivLimbs(n, d, i, q, fit) ==
    IF i > 0 /\ fit[1] < LimbBase
    THEN DivLimbs(n, d, i - 1, <<fit[1]>> \o q, DivDigit(Trim(<<Limb(n, i)>> \o fit[2]), d))
    ELSE <<Trim(<<fit[1]>> \o q), fit[2] # <<>>>>

\* <<floor(n / d), whether d does not divide n>> for d > 0: both are shifted
\* until the top digit of d has its highest binary digit set; the digits of n
\* above digit i make a number below d, which is the first remainder
BigDivMod(n, d) ==
    LET s == LimbBits * Len(d) - BitLen(d)
        n1 == BigShl(n, s)
        i == IF Len(n1) >= Len(d) THEN Len(n1) - Len(d) + 1 ELSE 0
    IN  DivLimbs(n1, BigShl(d, s), i, <<>>, <<0, SubSeq(n1, i + 1, Len(n1))>>)

\* the double a / b, for b # 0: the mantissa of a is shifted by s so that the
\* quotient of the mantissas has at least 56 binary digits, and the remainder
\* makes the sticky digit
FloatDiv(a, b) ==
    LET s == 57 + BitLen(b.mant) - BitLen(a.mant)
        Quotient(qr) ==
            Dyadic(a.neg # b.neg, RoundNearestEven(qr[1], qr[2]), a.exp - b.exp - s)
    IN  IF a.mant = <<>> THEN a ELSE Quotient(BigDivMod(BigShl(a.mant, s), b.mant))

\* Newton's iteration for the integer square root of n, started above the
\* root: <<root, whether n is not its square>>.  The next value, the mean of x
\* and the quotient n / x, is below x unless the quotient is at least x, and
\* then x is the root.
RECURSIVE Newton(_, _)
Newton(n, x) ==
    LET Step(qr) ==
            IF BigCmp(qr[1], x) >= 0 THEN <<x, qr[1] # x \/ qr[2]>>
            ELSE Newton(n, BigShr(BigAdd(x, qr[1]), 1))
    IN  Step(BigDivMod(n, x))

\* <<floor of the square root of n, whether n is not a square>> for n > 0; the
\* iteration starts from the root of the leading 29 or 30 binary digits of n
BigSqrt(n) ==
    LET t == ((BitLen(n) - 29) \div 2) * 2
        Leading(top) ==
            ISqrt(Limb(top, 1) + LimbBase * Limb(top, 2)
                  + LimbBase * LimbBase * Limb(top, 3)) + 1
        Start(r0) == BigShl(Trim(<<r0 % LimbBase, r0 \div LimbBase>>), t \div 2)
    IN  Newton(n, Start(Leading(BigShr(n, t))))

\* the double sqrt(a), for a >= 0: the mantissa is shifted by s, which leaves
\* an even exponent and a root of at least 55 binary digits, and an inexact
\* root makes the sticky digit
FloatSqrt(a) ==
    LET s0 == 110 - BitLen(a.mant)
        s == s0 + ((a.exp - s0) % 2)
        Root(r) == Dyadic(FALSE, RoundNearestEven(r[1], r[2]), (a.exp - s) \div 2)
    IN  IF a.mant = <<>> THEN a ELSE Root(BigSqrt(BigShl(a.mant, s)))

\* the double of an integer
FromInt(k) ==
    LET Digits(n) ==
            Trim(<<n % LimbBase, (n \div LimbBase) % LimbBase, n \div (LimbBase * LimbBase)>>)
    IN  Dyadic(k < 0, Digits(IF k < 0 THEN 0 - k ELSE k), 0)

\* the double of a coordinate of k / 64 degree
FromUnits(k) == IF k = 0 THEN FromInt(0) ELSE [FromInt(k) EXCEPT !.exp = @ - 6]

\* the coordinates of a lattice point as doubles
FloatPoint(p) == <<FromUnits(p[1]), FromUnits(p[2])>>

\* GEOS Coordinate::distance: sqrt(dx * dx + dy * dy)
CoordDistance(p, q) ==
    LET Square(d) == FloatMul(d, d)
    IN  FloatSqrt(FloatAdd(Square(FloatSub(q[1], p[1])), Square(FloatSub(q[2], p[2]))))

\* the side of the corner c (lattice units) of the line through the double
\* points a and b: the sign of (b - a) x (c - a) = (bx - ax) * (cy - ay) -
\* (by - ay) * (cx - ax), computed exactly
Orientation(a, b, c) ==
    Sign(ExactSub(ExactMul(ExactSub(b[1], a[1]), ExactSub(FromUnits(c[2]), a[2])),
                  ExactMul(ExactSub(b[2], a[2]), ExactSub(FromUnits(c[1]), a[1]))))

\* 1, 0, -1 as the double f is greater than, equal to, less than k / 64
CmpUnits(f, k) == Sign(ExactSub(f, FromUnits(k)))

\* geometry.intersects(segment) for a segment between the double points a and
\* b: the closed segment and the closed rectangle share a point.  The bounding
\* boxes meet, and an end point lies in the rectangle or the corners do not
\* all lie strictly on one side of the segment.
FloatSegIntersectsRect(a, b, r) ==
    LET ends == {a, b}
        corners == {<<r.x1, r.y1>>, <<r.x1, r.y2>>, <<r.x2, r.y1>>, <<r.x2, r.y2>>}
        Sides(c) == ~ ((\A v \in c : v > 0) \/ (\A v \in c : v < 0))
    IN  /\ \E p \in ends : CmpUnits(p[1], r.x1) >= 0
        /\ \E p \in ends : CmpUnits(p[1], r.x2) <= 0
        /\ \E p \in ends : CmpUnits(p[2], r.y1) >= 0
        /\ \E p \in ends : CmpUnits(p[2], r.y2) <= 0
        /\ \/ \E p \in ends :
                 /\ CmpUnits(p[1], r.x1) >= 0 /\ CmpUnits(p[1], r.x2) <= 0
                 /\ CmpUnits(p[2], r.y1) >= 0 /\ CmpUnits(p[2], r.y2) <= 0
           \/ Sides({Orientation(a, b, c) : c \in corners})

\* ---------------------------------------------- advanced_route_utils weights
\* line.length of a line between lattice points, a double
LineLength(line) == CoordDistance(FloatPoint(line.a), FloatPoint(line.b))

\* num_segments = int(line.length / segment_length), segment_length = 1 degree.
\* The squared length is exact in doubles and the rounded root of a number
\* below n * n is below n, so int() of the double is the floor of the root.
NumSegments(line) ==
    LET dx == line.b[1] - line.a[1]
        dy == line.b[2] - line.a[2]
    IN  ISqrt(dx * dx + dy * dy) \div UnitsPerDegree

\* GEOS pointAlongSegmentByFraction, one coordinate: (b - a) * frac + a
Along(a, b, frac) == FloatAdd(FloatMul(FloatSub(b, a), frac), a)

\* GEOS pointAlongSegmentByFraction for the segment from p to q
PointAlong(p, q, frac) ==
    IF Sign(ExactSub(frac, FromInt(1))) >= 0 THEN q
    ELSE <<Along(p[1], q[1], frac), Along(p[2], q[2], frac)>>

\* GEOS LengthIndexedLine::extractPoint for the line from p to q of length L:
\* the start for a length <= 0, the end when the length is not below L, else
\* the point at the fraction ln / L
ExtractPoint(p, q, L, ln) ==
    IF Sign(ln) <= 0 THEN p
    ELSE IF Sign(ExactSub(L, ln)) > 0 THEN PointAlong(p, q, FloatDiv(ln, L))
    ELSE q

\* line.interpolate(i / num_segments, normalized=True) for the line from p to
\* q of length L: GEOS multiplies the fraction by the length and walks that
\* far along the line
interpolate(p, q, L, i, n) ==
    ExtractPoint(p, q, L, FloatMul(FloatDiv(FromInt(i), FromInt(n)), L))

\* the points interpolate(i / n), ..., interpolate(n / n)
RECURSIVE CutsFrom(_, _, _, _, _)
CutsFrom(p, q, L, i, n) ==
    IF i > n THEN <<>>
    ELSE <<interpolate(p, q, L, i, n)>> \o CutsFrom(p, q, L, i + 1, n)

\* LineString([cut[i], cut[i + 1]]) for the consecutive cut points, each with
\* its segment.length
RECURSIVE SegsFrom(_, _)
SegsFrom(cut, i) ==
    IF i >= Len(cut) THEN <<>>
    ELSE <<[a |-> cut[i], b |-> cut[i + 1], length |-> CoordDistance(cut[i], cut[i + 1])]>>
           \o SegsFrom(cut, i + 1)

\* segment_edge: num_segments = int(line.length / segment_length) is the
\* integer part of the double line.length (0 exactly when NumSegments(line) is
\* 0, which is known without doubles); segment i (i in 0..num_segments-1) runs
\* from interpolate(i / num_segments) to interpolate((i + 1) / num_segments),
\* both computed from the start point of the line
segment_edge(line) ==
    IF NumSegments(line) = 0 THEN <<>>
    ELSE LET length == LineLength(line)
             Floor(x) == IF x.exp >= 0 THEN BigShl(x.mant, x.exp) ELSE BigShr(x.mant, 0 - x.exp)
             Value(n) == Limb(n, 1) + LimbBase * Limb(n, 2) + LimbBase * LimbBase * Limb(n, 3)
             num_segments == Value(Floor(length))
         IN  SegsFrom(CutsFrom(FloatPoint(line.a), FloatPoint(line.b), length, 0,
                               num_segments),
                      1)

\* gdf.intersects(segment).any() for a segment of segment_edge
SegmentIntersects(gdf, seg) == \E r \in gdf : FloatSegIntersectsRect(seg.a, seg.b, r)

\* the factors as the doubles Python multiplies by: 1.5, 1, 0.8 and 3
RoadFactor == FloatDiv(FromInt(RoadTenths), FromInt(10))
BuildingFactor == FloatDiv(FromInt(BuildingTenths), FromInt(10))
OpenSpaceFactor == FloatDiv(FromInt(OpenSpaceTenths), FromInt(10))
AvoidanceFactor == FloatDiv(FromInt(AvoidanceTenths), FromInt(10))

\* variant: an elif chain, only the first layer that matches is applied
calculate_segment_weight_first_match(seg, roads_gdf, buildings_gdf, open_space_gdf, avoidance_gdf) ==
    IF SegmentIntersects(roads_gdf, seg) THEN FloatMul(seg.length, RoadFactor)
    ELSE IF SegmentIntersects(buildings_gdf, seg) THEN FloatMul(seg.length, BuildingFactor)
    ELSE IF SegmentIntersects(open_space_gdf, seg) THEN FloatMul(seg.length, OpenSpaceFactor)
    ELSE IF SegmentIntersects(avoidance_gdf, seg) THEN FloatMul(seg.length, AvoidanceFactor)
    ELSE seg.length

\* calculate_segment_weight: weight = segment.length, then four independent
\* ifs, each multiplying the weight by the factor of a layer the segment
\* intersects: roads, buildings, open space, avoidance zones, in this order
calculate_segment_weight(seg, roads_gdf, buildings_gdf, open_space_gdf, avoidance_gdf) ==
    LET If(weight, gdf, factor) ==
            IF SegmentIntersects(gdf, seg) THEN FloatMul(weight, factor) ELSE weight
    IN  If(If(If(If(seg.length, roads_gdf, RoadFactor),
                 buildings_gdf, BuildingFactor),
              open_space_gdf, OpenSpaceFactor),
           avoidance_gdf, AvoidanceFactor)

\* CPython before 3.12: every element is added to the total so far
RECURSIVE SumFrom(_, _, _)
SumFrom(s, i, acc) == IF i > Len(s) THEN acc ELSE SumFrom(s, i + 1, FloatAdd(acc, s[i]))

\* CPython 3.12 and later (builtin_sum, Neumaier's compensated summation):
\* t = f_result + x; c += (f_result - t) + x when |f_result| >= |x|, else
\* c += (x - t) + f_result; f_result = t; at the end f_result += c unless c
\* is 0
RECURSIVE CompensatedFrom(_, _, _, _)
CompensatedFrom(s, i, f_result, c) ==
    IF i > Len(s) THEN (IF Sign(c) # 0 THEN FloatAdd(f_result, c) ELSE f_result)
    ELSE LET Abs(x) == [x EXCEPT !.neg = FALSE]
             Lost(t) ==
                 IF Sign(ExactSub(Abs(f_result), Abs(s[i]))) >= 0
                 THEN FloatAdd(FloatSub(f_result, t), s[i])
                 ELSE FloatAdd(FloatSub(s[i], t), f_result)
             Step(t) == CompensatedFrom(s, i + 1, t, FloatAdd(c, Lost(t)))
         IN  Step(FloatAdd(f_result, s[i]))

\* the two ways the interpreter that runs the scripts may add doubles in sum()
PythonSums == {"plain", "compensated"}

\* Python's sum() of a sequence of doubles: it starts from the int 0 (the
\* result for no element), 0 + s[1] is s[1], and the further elements are
\* added in the order of the sequence in the way of the interpreter
sum(s) ==
    IF s = <<>> THEN 0
    ELSE IF python_sum = "compensated" THEN CompensatedFrom(s, 2, s[1], FromInt(0))
    ELSE SumFrom(s, 2, s[1])

\* the list of the weights of segments i, i + 1, ...
RECURSIVE WeightsFrom(_, _, _, _, _, _)
WeightsFrom(segments, i, roads_gdf, buildings_gdf, open_space_gdf, avoidance_gdf) ==
    IF i > Len(segments) THEN <<>>
    ELSE <<calculate_segment_weight(segments[i], roads_gdf, buildings_gdf, open_space_gdf,
                                    avoidance_gdf)>>
           \o WeightsFrom(segments, i + 1, roads_gdf, buildings_gdf, open_space_gdf,
                          avoidance_gdf)

\* calculate_edge_weight, its return statement: sum(calculate_segment_weight(
\* segment, ...) for segment in segments), the segments taken in their order
SegmentsWeight(segments, roads_gdf, buildings_gdf, open_space_gdf, avoidance_gdf) ==
    sum(WeightsFrom(segments, 1, roads_gdf, buildings_gdf, open_space_gdf, avoidance_gdf))

\* calculate_edge_weight: segments = segment_edge(line), then the sum over
\* them; the int 0 for a line that is cut into no segment
calculate_edge_weight(line, roads_gdf, buildings_gdf, open_space_gdf, avoidance_gdf) ==
    SegmentsWeight(segment_edge(line), roads_gdf, buildings_gdf, open_space_gdf,
                   avoidance_gdf)

\* ------------------------------------------------------------ networkx graph
\* nx.Graph(): nodes, the pos and name node attributes (functions on the nodes
\* that carry them) and the edges in the order they were first added, which is
\* the order of every adjacency dict.
EmptyGraph == [nodes |-> {}, pos |-> <<>>, name |-> <<>>, edges |-> <<>>]

\* variant: the attribute of a node that exists already is not set
AddNodeIfAbsent(g, n, p) ==
    IF n \in g.nodes THEN g
    ELSE [g EXCEPT !.nodes = @ \cup {n}, !.pos = (n :> p) @@ @]

\* G.add_node(n, pos=p): creates the node or updates its attribute
AddNode(g, n, p) ==
    [g EXCEPT !.nodes = @ \cup {n}, !.pos = (n :> p) @@ @]

\* G.add_node(n, pos=p, name=nm)
AddNamedNode(g, n, p, nm) ==
    [g EXCEPT !.nodes = @ \cup {n}, !.pos = (n :> p) @@ @, !.name = (n :> nm) @@ @]

EdgeIndex(g, u, v) ==
    {i \in 1..Len(g.edges) : {g.edges[i].u, g.edges[i].v} = {u, v}}

\* G.add_edge(u, v, weight=w): creates missing end nodes without attributes; an
\* edge that exists keeps its place and takes the new weight
AddEdge(g, u, v, w) ==
    LET at == EdgeIndex(g, u, v)
    IN  [g EXCEPT !.nodes = @ \cup {u, v},
                  !.edges = IF at = {}
                            THEN Append(@, [u |-> u, v |-> v, weight |-> w])
                            ELSE [i \in 1..Len(@) |->
                                    IF i \in at THEN [@[i] EXCEPT !.weight = w] ELSE @[i]]]

HasEdge(g, u, v) == EdgeIndex(g, u, v) # {}

EdgeWeight(g, u, v) == g.edges[CHOOSE i \in EdgeIndex(g, u, v) : TRUE].weight

SetMax(S) == CHOOSE x \in S : \A y \in S : y <= x

\* ------------------------------------------------- create_and_save_graph
\* simple_route_utils: the weight of an edge that passed the no-fly test
SimpleBuildWeight(distance, line) ==
    IF Intersects(avoidance_zones, line) THEN distance * BuildAvoidanceFactor ELSE distance

\* variant: the edge is added without the no-fly test of its line
SimpleBuildPairNoFlyUnchecked(g, k1, k2) ==
    LET row1 == health_facilities[k1]
        row2 == health_facilities[k2]
        distance == Geodesic(<<row1.latitude, row1.longitude>>,
                             <<row2.latitude, row2.longitude>>)
        line == LineString(Geometry(row1), Geometry(row2))
    IN  IF k1 = k2 THEN g
        ELSE IF distance > drone_range THEN g
        ELSE AddEdge(g, k1 - 1, k2 - 1, SimpleBuildWeight(distance, line))

\* variant: a pair exactly at the range is not connected
SimpleBuildPairBelowRange(g, k1, k2) ==
    LET row1 == health_facilities[k1]
        row2 == health_facilities[k2]
        distance == Geodesic(<<row1.latitude, row1.longitude>>,
                             <<row2.latitude, row2.longitude>>)
        line == LineString(Geometry(row1), Geometry(row2))
    IN  IF k1 = k2 THEN g
        ELSE IF distance >= drone_range THEN g
        ELSE IF Intersects(no_fly_zones, line) THEN g
        ELSE AddEdge(g, k1 - 1, k2 - 1, SimpleBuildWeight(distance, line))

\* the body of the inner loop for one pair (idx1, idx2); k1, k2 are the rows'
\* positions in the table, the pandas index is the position minus one
SimpleBuildPair(g, k1, k2) ==
    LET row1 == health_facilities[k1]
        row2 == health_facilities[k2]
        distance == Geodesic(<<row1.latitude, row1.longitude>>,
                             <<row2.latitude, row2.longitude>>)
        line == LineString(Geometry(row1), Geometry(row2))
    IN  IF k1 = k2 THEN g
        ELSE IF distance > drone_range THEN g
        ELSE IF Intersects(no_fly_zones, line) THEN g
        ELSE AddEdge(g, k1 - 1, k2 - 1, SimpleBuildWeight(distance, line))

RECURSIVE SimpleBuildInner(_, _, _)
SimpleBuildInner(g, k1, k2) ==
    IF k2 > Len(health_facilities) THEN g
    ELSE SimpleBuildInner(SimpleBuildPair(g, k1, k2), k1, k2 + 1)

RECURSIVE SimpleBuildOuter(_, _)
SimpleBuildOuter(g, k1) ==
    IF k1 > Len(health_facilities) THEN g
    ELSE LET row1 == health_facilities[k1]
         IN  IF Contains(no_fly_zones, Geometry(row1))
             THEN SimpleBuildOuter(g, k1 + 1)
             ELSE SimpleBuildOuter(
                    SimpleBuildInner(
                        AddNode(g, k1 - 1, <<row1.longitude, row1.latitude>>), k1, 1),
                    k1 + 1)

\* simple_route_utils.create_and_save_graph: the graph that is pickled
simple_create_graph == SimpleBuildOuter(EmptyGraph, 1)

\* variant: the no-fly test looks at the two end points only, not at the line
AdvancedBuildPairEndpointsOnly(g, k1, k2) ==
    LET row1 == health_facilities[k1]
        row2 == health_facilities[k2]
        distance == Geodesic(<<row1.latitude, row1.longitude>>,
                             <<row2.latitude, row2.longitude>>)
        line == LineString(Geometry(row1), Geometry(row2))
    IN  IF k1 = k2 THEN g
        ELSE IF distance > drone_range THEN g
        ELSE IF Contains(no_fly_zones, line.a) \/ Contains(no_fly_zones, line.b) THEN g
        ELSE AddEdge(g, k1 - 1, k2 - 1,
                     calculate_edge_weight(line, roads, buildings, open_space,
                                           avoidance_zones))

\* variant: a pair whose line weighs 0 is not connected
AdvancedBuildPairSkipZero(g, k1, k2) ==
    LET row1 == health_facilities[k1]
        row2 == health_facilities[k2]
        distance == Geodesic(<<row1.latitude, row1.longitude>>,
                             <<row2.latitude, row2.longitude>>)
        line == LineString(Geometry(row1), Geometry(row2))
        edge_weight == calculate_edge_weight(line, roads, buildings, open_space,
                                             avoidance_zones)
    IN  IF k1 = k2 THEN g
        ELSE IF distance > drone_range THEN g
        ELSE IF Intersects(no_fly_zones, line) THEN g
        ELSE IF edge_weight = 0 THEN g
        ELSE AddEdge(g, k1 - 1, k2 - 1, edge_weight)

AdvancedBuildPair(g, k1, k2) ==
    LET row1 == health_facilities[k1]
        row2 == health_facilities[k2]
        distance == Geodesic(<<row1.latitude, row1.longitude>>,
                             <<row2.latitude, row2.longitude>>)
        line == LineString(Geometry(row1), Geometry(row2))
    IN  IF k1 = k2 THEN g
        ELSE IF distance > drone_range THEN g
        ELSE IF Intersects(no_fly_zones, line) THEN g
        ELSE AddEdge(g, k1 - 1, k2 - 1,
                     calculate_edge_weight(line, roads, buildings, open_space,
                                           avoidance_zones))

RECURSIVE AdvancedBuildInner(_, _, _)
AdvancedBuildInner(g, k1, k2) ==
    IF k2 > Len(health_facilities) THEN g
    ELSE AdvancedBuildInner(AdvancedBuildPair(g, k1, k2), k1, k2 + 1)

RECURSIVE AdvancedBuildOuter(_, _)
AdvancedBuildOuter(g, k1) ==
    IF k1 > Len(health_facilities) THEN g
    ELSE LET row1 == health_facilities[k1]
         IN  IF Contains(no_fly_zones, Geometry(row1))
             THEN AdvancedBuildOuter(g, k1 + 1)
             ELSE AdvancedBuildOuter(
                    AdvancedBuildInner(
                        AddNode(g, k1 - 1, <<row1.longitude, row1.latitude>>), k1, 1),
                    k1 + 1)

\* advanced_route_utils.create_and_save_graph
advanced_create_graph == AdvancedBuildOuter(EmptyGraph, 1)

\* ------------------------------------------------------ add_node_to_graph
\* variant: the new index is the number of nodes
NewNodeIdxLen(g) == Cardinality(g.nodes)

\* new_node_idx = max(G.nodes) + 1 if len(G.nodes) > 0 else 0
NewNodeIdx(g) == IF g.nodes # {} THEN SetMax(g.nodes) + 1 ELSE 0

\* G.add_node(new, pos=(lon, lat), name=node_name), then the pos attribute read
\* with get_node_attributes, extended by new and written back
InsertNode(g, new, lat, lon, node_name) ==
    LET g1 == AddNamedNode(g, new, <<lon, lat>>, node_name)
        pos == (new :> <<lon, lat>>) @@ g1.pos
    IN  [g1 EXCEPT !.pos = [n \in (DOMAIN pos) \cap g1.nodes |-> pos[n]] @@ @]

\* simple_route_utils.add_node_to_graph: the weight of an edge that passed the
\* no-fly test
SimpleInsertWeight(distance, line) ==
    IF Intersects(avoidance_zones, line) THEN distance * InsertAvoidanceFactor ELSE distance

\* variant: the edge goes to the position of the row in the table, not to its index
SimpleInsertEdgeToPosition(g, new, lat, lon, k) ==
    LET row == health_facilities[k]
        distance == Geodesic(<<lat, lon>>, <<row.latitude, row.longitude>>)
        line == LineString(Point(lon, lat), Geometry(row))
    IN  IF distance > drone_range THEN g
        ELSE IF Intersects(no_fly_zones, line) THEN g
        ELSE AddEdge(g, new, k, SimpleInsertWeight(distance, line))

SimpleInsertEdge(g, new, lat, lon, k) ==
    LET row == health_facilities[k]
        distance == Geodesic(<<lat, lon>>, <<row.latitude, row.longitude>>)
        line == LineString(Point(lon, lat), Geometry(row))
    IN  IF distance > drone_range THEN g
        ELSE IF Intersects(no_fly_zones, line) THEN g
        ELSE AddEdge(g, new, k - 1, SimpleInsertWeight(distance, line))

RECURSIVE SimpleInsertLoop(_, _, _, _, _)
SimpleInsertLoop(g, new, lat, lon, k) ==
    IF k > Len(health_facilities) THEN g
    ELSE SimpleInsertLoop(SimpleInsertEdge(g, new, lat, lon, k), new, lat, lon, k + 1)

\* variant: the point is inserted without the no-fly test
simple_add_node_unchecked(g, lat, lon, node_name) ==
    LET new == NewNodeIdx(g)
    IN  [G |-> SimpleInsertLoop(InsertNode(g, new, lat, lon, node_name), new, lat, lon, 1),
         result |-> new]

\* simple_route_utils.add_node_to_graph: the graph after the call and the value
\* returned
simple_add_node_to_graph(g, lat, lon, node_name) ==
    IF Contains(no_fly_zones, Point(lon, lat))
    THEN [G |-> g, result |-> None]
    ELSE LET new == NewNodeIdx(g)
         IN  [G |-> SimpleInsertLoop(InsertNode(g, new, lat, lon, node_name),
                                     new, lat, lon, 1),
              result |-> new]

\* variant: the edge is added without the no-fly test of its line
AdvancedInsertEdgeNoFlyUnchecked(g, new, lat, lon, k) ==
    LET row == health_facilities[k]
        distance == Geodesic(<<lat, lon>>, <<row.latitude, row.longitude>>)
        line == LineString(Point(lon, lat), Geometry(row))
    IN  IF distance > drone_range THEN g
        ELSE AddEdge(g, new, k - 1,
                     calculate_edge_weight(line, roads, buildings, open_space,
                                           avoidance_zones))

\* variant: the edge starts at the index before the new one
AdvancedInsertEdgeFromLast(g, new, lat, lon, k) ==
    LET row == health_facilities[k]
        distance == Geodesic(<<lat, lon>>, <<row.latitude, row.longitude>>)
        line == LineString(Point(lon, lat), Geometry(row))
    IN  IF distance > drone_range THEN g
        ELSE IF Intersects(no_fly_zones, line) THEN g
        ELSE AddEdge(g, new - 1, k - 1,
                     calculate_edge_weight(line, roads, buildings, open_space,
                                           avoidance_zones))

AdvancedInsertEdge(g, new, lat, lon, k) ==
    LET row == health_facilities[k]
        distance == Geodesic(<<lat, lon>>, <<row.latitude, row.longitude>>)
        line == LineString(Point(lon, lat), Geometry(row))
    IN  IF distance > drone_range THEN g
        ELSE IF Intersects(no_fly_zones, line) THEN g
        ELSE AddEdge(g, new, k - 1,
                     calculate_edge_weight(line, roads, buildings, open_space,
                                           avoidance_zones))

RECURSIVE AdvancedInsertLoop(_, _, _, _, _)
AdvancedInsertLoop(g, new, lat, lon, k) ==
    IF k > Len(health_facilities) THEN g
    ELSE AdvancedInsertLoop(AdvancedInsertEdge(g, new, lat, lon, k), new, lat, lon, k + 1)

\* variant: the point is inserted without the no-fly test
advanced_add_node_unchecked(g, lat, lon, node_name) ==
    LET new == NewNodeIdx(g)
    IN  [G |-> AdvancedInsertLoop(InsertNode(g, new, lat, lon, node_name), new, lat, lon, 1),
         result |-> new]

\* advanced_route_utils.add_node_to_graph
advanced_add_node_to_graph(g, lat, lon, node_name) ==
    IF Contains(no_fly_zones, Point(lon, lat))
    THEN [G |-> g, result |-> None]
    ELSE LET new == NewNodeIdx(g)
         IN  [G |-> AdvancedInsertLoop(InsertNode(g, new, lat, lon, node_name),
                                       new, lat, lon, 1),
              result |-> new]

\* ---------------------------------------------------------- nx.dijkstra_path
\* G.adj[v]: the neighbours of v with the edge weights, in insertion order
Adj(g, v) ==
    LET inc == SelectSeq(g.edges, LAMBDA e : v \in {e.u, e.v})
    IN  [i \in 1..Len(inc) |->
            [node |-> IF inc[i].u = v THEN inc[i].v ELSE inc[i].u,
             weight |-> inc[i].weight]]

\* variant: the fringe is a queue, the entry pushed first is popped
HeapMinFifo(fringe) ==
    CHOOSE e \in fringe : \A f \in fringe : e[2] <= f[2]

\* heappop: the least (distance, counter, node) entry of the fringe
HeapMin(fringe) ==
    CHOOSE e \in fringe :
        \A f \in fringe : e[1] < f[1] \/ (e[1] = f[1] /\ e[2] <= f[2])

\* the loop over G.adj[v] after v was popped: a neighbour that is not final and
\* was never seen, or is now reached on a strictly shorter way, is pushed
RECURSIVE DijkstraRelax(_, _, _, _)
DijkstraRelax(st, v, nbrs, k) ==
    IF k > Len(nbrs) THEN st
    ELSE LET u == nbrs[k].node
             vu_dist == st.dist[v] + nbrs[k].weight
         IN  IF u \in DOMAIN st.dist THEN DijkstraRelax(st, v, nbrs, k + 1)
             ELSE IF u \notin DOMAIN st.seen \/ vu_dist < st.seen[u]
             THEN DijkstraRelax(
                    [st EXCEPT !.seen = (u :> vu_dist) @@ @,
                               !.fringe = @ \cup {<<vu_dist, st.count, u>>},
                               !.count = @ + 1,
                               !.paths = (u :> Append(st.paths[v], u)) @@ @],
                    v, nbrs, k + 1)
             ELSE DijkstraRelax(st, v, nbrs, k + 1)

RECURSIVE DijkstraLoop(_, _, _)
DijkstraLoop(g, st, target) ==
    IF st.fringe = {} THEN st
    ELSE LET top == HeapMin(st.fringe)
             v == top[3]
             popped == [st EXCEPT !.fringe = @ \ {top}]
         IN  IF v \in DOMAIN st.dist THEN DijkstraLoop(g, popped, target)
             ELSE LET final == [popped EXCEPT !.dist = (v :> top[1]) @@ @]
                  IN  IF v = target THEN final
                      ELSE DijkstraLoop(g, DijkstraRelax(final, v, Adj(g, v), 1), target)

\* nx.dijkstra_path(G, source, target, weight="weight"): the path as a sequence
\* of nodes, or Nothing where networkx raises NetworkXNoPath
dijkstra_path(g, source, target) ==
    LET st0 == [dist |-> <<>>, seen |-> (source :> 0), fringe |-> {<<0, 0, source>>},
                count |-> 1, paths |-> (source :> <<source>>)]
        st == DijkstraLoop(g, st0, target)
    IN  IF target \in DOMAIN st.dist THEN st.paths[target] ELSE Nothing

\* ----------------------------------------------------------- route output
\* the label column: "Start", "End" or f"Charging Station {node}"
ChargingStation(node) == <<"Charging Station", node>>

\* variant: the two components of pos are written to the wrong columns
save_route_swapped(path, pos) ==
    LET start_pos == pos[path[1]]
        end_pos == pos[path[Len(path)]]
        middle == SubSeq(path, 2, Len(path) - 1)
    IN  <<[label |-> "Start", lat |-> start_pos[1], longitude |-> start_pos[2]]>>
        \o [i \in 1..Len(middle) |->
              [label |-> ChargingStation(middle[i]),
               lat |-> pos[middle[i]][1], longitude |-> pos[middle[i]][2]]]
        \o <<[label |-> "End", lat |-> end_pos[1], longitude |-> end_pos[2]]>>

\* common_route_utils.save_route_to_csv: the rows written, in order.  pos holds
\* (longitude, latitude); a row is label, lat, longitude.
save_route_to_csv(path, pos) ==
    LET start_pos == pos[path[1]]
        end_pos == pos[path[Len(path)]]
        middle == SubSeq(path, 2, Len(path) - 1)
    IN  <<[label |-> "Start", lat |-> start_pos[2], longitude |-> start_pos[1]]>>
        \o [i \in 1..Len(middle) |->
              [label |-> ChargingStation(middle[i]),
               lat |-> pos[middle[i]][2], longitude |-> pos[middle[i]][1]]]
        \o <<[label |-> "End", lat |-> end_pos[2], longitude |-> end_pos[1]]>>

\* G.remove_nodes_from(nodes): the nodes, their attributes and their edges go
RemoveNodes(g, S) ==
    [nodes |-> g.nodes \ S,
     pos |-> [n \in (DOMAIN g.pos) \ S |-> g.pos[n]],
     name |-> [n \in (DOMAIN g.name) \ S |-> g.name[n]],
     edges |-> SelectSeq(g.edges, LAMBDA e : e.u \notin S /\ e.v \notin S)]

\* ------------------------------------------------------------------ inputs
\* the westernmost facility column (0.1875 W) and the step between columns
LonWest == -12
LonStep == 4
\* the easternmost facility column
LonEast == LonWest + LonStep * MaxLon
\* the two facility parallels (5.375 N, 5.4375 N)
FacilityLats == {344, 348}
\* the parallel on which start and end points are typed (5.484375 N)
EntryLat == 351

\* the facility lattice, as <<lon, lat>>
GridPoints == {<<LonWest + LonStep * x, lat>> : x \in 0..MaxLon, lat \in FacilityLats}

\* what the user types at the prompts of get_coordinates, as <<lon, lat>>: the
\* position of a facility, or a point of the parallel EntryLat one unit east of
\* a facility column
UserPoints == GridPoints \cup {<<LonWest + LonStep * x + 1, EntryLat>> : x \in 0..MaxLon}

\* main: lat_range = (5.47, 5.89) and lon_range = (-0.24, -0.02), the bounds for
\* Accra, in hundredths of a degree
lat_range == <<547, 589>>
lon_range == <<-24, -2>>

\* get_coordinates(lat_range, lon_range): the (latitude, longitude) pairs it can
\* return.  An input outside the bounds is answered with the prompt again, so
\* only an input with lat_range[0] <= latitude <= lat_range[1] and
\* lon_range[0] <= longitude <= lon_range[1] is ever returned.
get_coordinates(lat_r, lon_r) ==
    {<<q[2], q[1]>> :
        q \in {u \in UserPoints :
                 /\ UnitsPerDegree * lat_r[1] <= 100 * u[2]
                 /\ 100 * u[2] <= UnitsPerDegree * lat_r[2]
                 /\ UnitsPerDegree * lon_r[1] <= 100 * u[1]
                 /\ 100 * u[1] <= UnitsPerDegree * lon_r[2]}}

FacilityRow(p) == [longitude |-> p[1], latitude |-> p[2]]

\* the order of the rows of a table: by longitude, then latitude
PointBefore(p, q) == p[1] < q[1] \/ (p[1] = q[1] /\ p[2] < q[2])

\* facility tables: up to MaxFacilities rows at distinct lattice points, in that
\* order (the index of a row is its position minus one)
FacilityTables ==
    UNION {{[i \in 1..n |-> FacilityRow(f[i])] :
                f \in {h \in [1..n -> GridPoints] :
                          \A i, j \in 1..n : i < j => PointBefore(h[i], h[j])}} :
           n \in 0..MaxFacilities}

\* no-fly sets: none; a zone with the facility position (-8, 348) and the
\* typed point (-7, 351) inside and the facility position (-4, 348) on its
\* boundary; a zone around the last upper facility position and the typed
\* point next to it, together with a zone between the two parallels that
\* holds no facility position
NoFlyChoices ==
    {{}, {Rect(-10, 346, -4, 352)},
     {Rect(LonEast - 1, 347, LonEast + 2, 352), Rect(-9, 345, -7, 347)}}

\* avoidance sets: none; a zone around the facility position (-8, 348) and the
\* typed point (-7, 351)
AvoidanceChoices == {{}, {Rect(-9, 347, -6, 352)}}

\* download_land_use_data: roads, buildings, open space of the place (read by
\* the advanced script only): a road between the facility parallels, buildings
\* south of the middle column, open space over the western column
LandUse ==
    [roads |-> {Rect(LonWest, 346, LonEast, 346)}, buildings |-> {Rect(-7, 343, -5, 344)},
     open_space |-> {Rect(-13, 343, -11, 352)}]

\* ranges in centimetres: 6.92637 km, which is one step along the parallel
\* 5.4375 N (6.926369 km) and not one along 5.375 N (6.927080 km), and 15.6 km
DroneRanges == {Geodesic(<<348, LonWest>>, <<348, LonWest + LonStep>>), 1560000}

\* ------------------------------------------------------------------- main
Init ==
    /\ pc = "create_graph"
    /\ python_sum \in PythonSums
    /\ policy \in {"simple", "advanced"}
    /\ drone_range \in DroneRanges
    /\ health_facilities \in FacilityTables
    /\ no_fly_zones \in NoFlyChoices
    /\ avoidance_zones \in AvoidanceChoices
    /\ roads = IF policy = "advanced" THEN LandUse.roads ELSE {}
    /\ buildings = IF policy = "advanced" THEN LandUse.buildings ELSE {}
    /\ open_space = IF policy = "advanced" THEN LandUse.open_space ELSE {}
    /\ graph_file = <<>>
    /\ G = EmptyGraph
    /\ start_in = Nothing
    /\ end_in = Nothing
    /\ start_node = None
    /\ end_node = None
    /\ shortest_path = Nothing
    /\ route_csv = Nothing
    /\ outcome = "running"
    /\ weighed_line = Nothing
    /\ weighed_segments = Nothing
    /\ total_weight = 0

\* the create_and_save_graph of the utils module the script imports
create_and_save_graph ==
    IF policy = "simple" THEN simple_create_graph ELSE advanced_create_graph

\* the add_node_to_graph of the utils module the script imports
add_node_to_graph(g, lat, lon, node_name) ==
    IF policy = "simple" THEN simple_add_node_to_graph(g, lat, lon, node_name)
    ELSE advanced_add_node_to_graph(g, lat, lon, node_name)

\* common_route_utils.load_graph: the unpickled graph, or None (here <<>>) when
\* the file is not found
load_graph == graph_file

\* main: load_graph finds no file, the graph is created, saved and loaded
CreateGraph ==
    /\ pc = "create_graph"
    /\ load_graph = <<>>
    /\ graph_file' = <<create_and_save_graph>>
    /\ G' = graph_file'[1]
    /\ pc' = "get_coordinates"
    /\ UNCHANGED weight_vars
    /\ UNCHANGED <<policy, python_sum, drone_range, health_facilities, no_fly_zones, avoidance_zones,
                   roads, buildings, open_space, start_in, end_in, start_node, end_node,
                   shortest_path, route_csv, outcome>>

\* main: start_lat, start_lon = get_coordinates(lat_range, lon_range) and
\* end_lat, end_lon = get_coordinates(lat_range, lon_range); both points are
\* asked for before either is inserted
GetCoordinates ==
    /\ pc = "get_coordinates"
    /\ start_in' \in get_coordinates(lat_range, lon_range)
    /\ end_in' \in get_coordinates(lat_range, lon_range)
    /\ pc' = "add_start"
    /\ UNCHANGED weight_vars
    /\ UNCHANGED <<graph_file, policy, python_sum, drone_range, health_facilities, no_fly_zones, avoidance_zones,
                   roads, buildings, open_space, G, start_node, end_node,
                   shortest_path, route_csv, outcome>>

\* main: start_node = add_node_to_graph(G, start_lat, start_lon, "Start", ...)
AddStart ==
    /\ pc = "add_start"
    /\ LET r == add_node_to_graph(G, start_in[1], start_in[2], "Start")
       IN  /\ G' = r.G
           /\ start_node' = r.result
    /\ pc' = "add_end"
    /\ UNCHANGED weight_vars
    /\ UNCHANGED <<graph_file, policy, python_sum, drone_range, health_facilities, no_fly_zones, avoidance_zones,
                   roads, buildings, open_space, start_in, end_in, end_node,
                   shortest_path, route_csv, outcome>>

\* main: end_node = add_node_to_graph(G, end_lat, end_lon, "End", ...)
AddEnd ==
    /\ pc = "add_end"
    /\ LET r == add_node_to_graph(G, end_in[1], end_in[2], "End")
       IN  /\ G' = r.G
           /\ end_node' = r.result
    /\ pc' = "route"
    /\ UNCHANGED weight_vars
    /\ UNCHANGED <<graph_file, policy, python_sum, drone_range, health_facilities, no_fly_zones, avoidance_zones,
                   roads, buildings, open_space, start_in, end_in, start_node,
                   shortest_path, route_csv, outcome>>

\* main: the else branch of "start_node is not None and end_node is not None"
NotAdded ==
    /\ pc = "route"
    /\ ~ (start_node # None /\ end_node # None)
    /\ outcome' = "not_added"
    /\ pc' = "done"
    /\ UNCHANGED weight_vars
    /\ UNCHANGED <<graph_file, policy, python_sum, drone_range, health_facilities, no_fly_zones, avoidance_zones,
                   roads, buildings, open_space, G, start_in, end_in, start_node, end_node,
                   shortest_path, route_csv>>

\* variant: NetworkXNoPath is not caught apart and falls to "except Exception"
NoPathAsUnexpected ==
    /\ pc = "route"
    /\ start_node # None /\ end_node # None
    /\ dijkstra_path(G, start_node, end_node) = Nothing
    /\ outcome' = "unexpected_error"
    /\ pc' = "done"
    /\ UNCHANGED weight_vars
    /\ UNCHANGED <<graph_file, policy, python_sum, drone_range, health_facilities, no_fly_zones, avoidance_zones,
                   roads, buildings, open_space, G, start_in, end_in, start_node, end_node,
                   shortest_path, route_csv>>

\* main: nx.dijkstra_path raises NetworkXNoPath
NoPath ==
    /\ pc = "route"
    /\ start_node # None /\ end_node # None
    /\ dijkstra_path(G, start_node, end_node) = Nothing
    /\ outcome' = "no_path"
    /\ pc' = "done"
    /\ UNCHANGED weight_vars
    /\ UNCHANGED <<graph_file, policy, python_sum, drone_range, health_facilities, no_fly_zones, avoidance_zones,
                   roads, buildings, open_space, G, start_in, end_in, start_node, end_node,
                   shortest_path, route_csv>>

\* main: the path is found; nodes without a position are removed from G; the
\* route is written from the pos read before the removal.  A path node missing
\* from pos is a KeyError, caught by "except Exception".
RouteFound ==
    /\ pc = "route"
    /\ start_node # None /\ end_node # None
    /\ LET path == dijkstra_path(G, start_node, end_node)
           pos == G.pos
           missing_pos_nodes == {n \in G.nodes : n \notin DOMAIN pos}
       IN  /\ path # Nothing
           /\ shortest_path' = path
           /\ G' = IF missing_pos_nodes # {} THEN RemoveNodes(G, missing_pos_nodes) ELSE G
           /\ IF \A i \in 1..Len(path) : path[i] \in DOMAIN pos
              THEN /\ route_csv' = save_route_to_csv(path, pos)
                   /\ outcome' = "route_saved"
              ELSE /\ route_csv' = route_csv
                   /\ outcome' = "unexpected_error"
    /\ pc' = "done"
    /\ UNCHANGED weight_vars
    /\ UNCHANGED <<graph_file, policy, python_sum, drone_range, health_facilities, no_fly_zones, avoidance_zones,
                   roads, buildings, open_space, start_in, end_in, start_node, end_node>>

Next ==
    \/ CreateGraph
    \/ GetCoordinates
    \/ AddStart
    \/ AddEnd
    \/ NotAdded
    \/ NoPath
    \/ RouteFound

Spec == Init /\ [][Next]_vars

\* --------------------------------------------- requests after an earlier run
\* The script is run again: the range is entered anew (get_drone_constraints)
\* and map/no_fly_zones.geojson and map/avoidance_zones.geojson are read anew,
\* holding whatever was put there since the last run; the facility table and
\* the land use are as before, and the pickle at graph_path is whatever the
\* first run saved.
NewRequest ==
    /\ pc = "done"
    /\ drone_range' \in DroneRanges
    /\ no_fly_zones' \in NoFlyChoices
    /\ avoidance_zones' \in AvoidanceChoices
    /\ G' = EmptyGraph
    /\ start_in' = Nothing
    /\ end_in' = Nothing
    /\ start_node' = None
    /\ end_node' = None
    /\ shortest_path' = Nothing
    /\ route_csv' = Nothing
    /\ outcome' = "running"
    /\ pc' = "create_graph"
    /\ UNCHANGED weight_vars
    /\ UNCHANGED <<graph_file, policy, python_sum, health_facilities, roads, buildings, open_space>>

\* main: G = load_graph(graph_path) finds the file; nothing is rebuilt
LoadGraph ==
    /\ pc = "create_graph"
    /\ load_graph # <<>>
    /\ G' = load_graph[1]
    /\ pc' = "get_coordinates"
    /\ UNCHANGED weight_vars
    /\ UNCHANGED <<graph_file, policy, python_sum, drone_range, health_facilities, no_fly_zones,
                   avoidance_zones, roads, buildings, open_space, start_in, end_in,
                   start_node, end_node, shortest_path, route_csv, outcome>>

NextCached ==
    \/ CreateGraph
    \/ LoadGraph
    \/ GetCoordinates
    \/ AddStart
    \/ AddEnd
    \/ NotAdded
    \/ NoPath
    \/ RouteFound
    \/ NewRequest

\* runs of the script one after another, sharing the pickled graph
SpecCached == Init /\ [][NextCached]_vars

\* the script is run again on the same zone files: only the range is new
NewRequestSameZones ==
    NewRequest /\ no_fly_zones' = no_fly_zones /\ avoidance_zones' = avoidance_zones

NextRerun ==
    \/ CreateGraph
    \/ LoadGraph
    \/ GetCoordinates
    \/ AddStart
    \/ AddEnd
    \/ NotAdded
    \/ NoPath
    \/ RouteFound
    \/ NewRequestSameZones

\* runs of the script one after another on the same data files
SpecRerun == Init /\ [][NextRerun]_vars

\* ------------------------------------------------------------------ claims
\* the facility rows that create_and_save_graph turns into nodes
FacilityNodes ==
    {k - 1 : k \in {j \in 1..Len(health_facilities) :
                       ~ Contains(no_fly_zones, Geometry(health_facilities[j]))}}

\* the straight line between the positions of the end nodes of an edge
EdgeLine(e) == LineString(G.pos[e.u], G.pos[e.v])

\* the geodesic distance between the positions of the end nodes of an edge
EdgeDistance(e) ==
    Geodesic(<<G.pos[e.u][2], G.pos[e.u][1]>>, <<G.pos[e.v][2], G.pos[e.v][1]>>)

EdgeSet == {G.edges[i] : i \in 1..Len(G.edges)}

\* C1: in the built graph and after every insertion, no edge's straight line
\* between the positions of its two end nodes intersects a no-fly region.
C1_NoEdgeCrossesNoFly ==
    \A e \in EdgeSet :
        /\ e.u \in DOMAIN G.pos /\ e.v \in DOMAIN G.pos
        /\ ~ Intersects(no_fly_zones, EdgeLine(e))

\* C1 witness: both insertions are done, the graph has a facility-facility edge
\* and an edge of an inserted node, and a no-fly region kept a pair of graph
\* nodes that are within range of each other unconnected.
C1_Witness ==
    /\ pc = "route" /\ start_node # None /\ end_node # None
    /\ \E e \in EdgeSet : {e.u, e.v} \subseteq FacilityNodes
    /\ \E e \in EdgeSet : start_node \in {e.u, e.v}
    /\ \E u \in FacilityNodes, v \in G.nodes :
          /\ u # v
          /\ ~ HasEdge(G, u, v)
          /\ Geodesic(<<G.pos[u][2], G.pos[u][1]>>, <<G.pos[v][2], G.pos[v][1]>>)
                <= drone_range
          /\ Intersects(no_fly_zones, LineString(G.pos[u], G.pos[v]))

\* C2: the graph that GraphBuilder produces has no node whose id is the index
\* of a facility contained in a no-fly region (neither added for its own row
\* nor created as the far end idx2 of another row's edge).
C2_NoExcludedFacilityNode ==
    pc = "get_coordinates" =>
        \A k \in 1..Len(health_facilities) :
            Contains(no_fly_zones, Geometry(health_facilities[k])) => (k - 1) \notin G.nodes

\* C2 witness: the graph is built, a facility lies inside a no-fly region and
\* is within range of facilities of the graph that come before and after it in
\* the table.
C2_Witness ==
    /\ pc = "get_coordinates"
    /\ \E k, i, j \in 1..Len(health_facilities) :
          /\ i < k /\ k < j
          /\ Contains(no_fly_zones, Geometry(health_facilities[k]))
          /\ {i - 1, j - 1} \subseteq G.nodes
          /\ \A m \in {i, j} :
                Geodesic(<<health_facilities[m].latitude, health_facilities[m].longitude>>,
                         <<health_facilities[k].latitude, health_facilities[k].longitude>>)
                    <= drone_range

\* C3: under the simple policy every edge, built or inserted, weighs the
\* geodesic distance of its end points, times 10 if its line intersects an
\* avoidance region.
C3_SimpleWeightTimesTen ==
    policy = "simple" =>
        \A e \in EdgeSet :
            e.weight = IF Intersects(avoidance_zones, EdgeLine(e))
                       THEN EdgeDistance(e) * 10 ELSE EdgeDistance(e)

\* the step is a call of add_node_to_graph; Entered is the <<lat, lon>> it is
\* called with and Returned is its result
InsertStep == pc \in {"add_start", "add_end"} /\ pc' # pc
Entered == IF pc = "add_start" THEN start_in' ELSE end_in'
Returned == IF pc = "add_start" THEN start_node' ELSE end_node'

\* C4: a call of add_node_to_graph with a point contained in a no-fly region
\* returns None and leaves the nodes, the node attributes and the edges of the
\* graph as they were.
C4_NoFlyPointNotAdded ==
    [][(InsertStep /\ Contains(no_fly_zones, Point(Entered[2], Entered[1])))
          => (Returned = None /\ G' = G)]_vars

\* C4 witness: Start was added to a graph with facility nodes and edges, and
\* the End point, inside a no-fly region, was not.
C4_Witness ==
    /\ pc = "route"
    /\ start_node # None
    /\ Contains(no_fly_zones, Point(end_in[2], end_in[1]))
    /\ end_node = None
    /\ \E e \in EdgeSet : start_node \in {e.u, e.v}

\* C5: a successful add_node_to_graph returns an index above every node of the
\* graph before the call (0 for the empty graph); it adds that one node, keeps
\* the attributes of every node that was there, and Start and End get
\* different indices.
C5_FreshNodeIndex ==
    [][(InsertStep /\ Returned # None)
          => /\ \A n \in G.nodes : Returned > n
             /\ G.nodes = {} => Returned = 0
             /\ G'.nodes = G.nodes \cup {Returned}
             /\ \A n \in DOMAIN G.pos : G'.pos[n] = G.pos[n]
             /\ \A n \in DOMAIN G.name : G'.name[n] = G.name[n]
             /\ (start_node' # None /\ end_node' # None) => start_node' # end_node']_vars

\* C5 witness: a facility in the middle of the table is not in the graph, a
\* later one is, and Start and End took the next two indices.
C5_Witness ==
    /\ pc = "route"
    /\ \E k \in 1..Len(health_facilities) :
          (k - 1) \notin G.nodes /\ k < Len(health_facilities)
    /\ (Len(health_facilities) - 1) \in G.nodes
    /\ start_node = Len(health_facilities)
    /\ end_node = Len(health_facilities) + 1

\* C6: once Start and End are inserted there is no Start-End edge, and the
\* other end of every edge of Start or End is a facility node.
C6_AdHocOnlyToFacilities ==
    (pc \in {"route", "done"} /\ start_node # None /\ end_node # None) =>
        /\ ~ HasEdge(G, start_node, end_node)
        /\ \A e \in EdgeSet :
              \A a \in {start_node, end_node} :
                  a \in {e.u, e.v} =>
                      \E f \in FacilityNodes \ {start_node, end_node} : {e.u, e.v} = {a, f}

\* C6 witness: the last facilities of the table are excluded (Start took the
\* index of one), Start and End are within range of each other with no no-fly
\* region between them, and both are connected to the graph.
C6_Witness ==
    /\ pc = "route" /\ start_node # None /\ end_node # None
    /\ start_node < Len(health_facilities)
    /\ Geodesic(start_in, end_in) <= drone_range
    /\ start_in # end_in
    /\ ~ Intersects(no_fly_zones, LineString(G.pos[start_node], G.pos[end_node]))
    /\ \E e \in EdgeSet : start_node \in {e.u, e.v}
    /\ \E e \in EdgeSet : end_node \in {e.u, e.v}

\* the nodes connected to a node of S by edges of the graph
RECURSIVE Reach(_, _)
Reach(g, S) ==
    LET T == S \cup {n \in g.nodes : \E m \in S : HasEdge(g, m, n)}
    IN  IF T = S THEN S ELSE Reach(g, T)

\* the paths without repeated nodes that extend `path` to the node t
RECURSIVE PathsFrom(_, _, _)
PathsFrom(g, path, t) ==
    LET last == path[Len(path)]
        seen == {path[i] : i \in 1..Len(path)}
    IN  IF last = t THEN {path}
        ELSE UNION {PathsFrom(g, Append(path, n), t) :
                        n \in {m \in g.nodes \ seen : HasEdge(g, last, m)}}

\* the sum of a sequence of integers
RECURSIVE SumInt(_)
SumInt(s) == IF s = <<>> THEN 0 ELSE Head(s) + SumInt(Tail(s))

\* the sum of the weights of the edges along a path
PathWeight(g, path) ==
    SumInt([i \in 1..(Len(path) - 1) |-> EdgeWeight(g, path[i], path[i + 1])])

StartInNoFly == start_in # Nothing /\ Contains(no_fly_zones, Point(start_in[2], start_in[1]))
EndInNoFly == end_in # Nothing /\ Contains(no_fly_zones, Point(end_in[2], end_in[1]))

\* C7: when the start point or the end point is contained in a no-fly region,
\* the request ends "not added": no shortest path is computed and no route is
\* written.
C7_NoFlyEndpointNoRoute ==
    (StartInNoFly \/ EndInNoFly) =>
        /\ shortest_path = Nothing
        /\ route_csv = Nothing
        /\ outcome \in {"running", "not_added"}
        /\ pc = "done" => outcome = "not_added"

\* C7 witness: the request is over; the start point was inside a no-fly
\* region, while the End node was added and connected to the graph.
C7_Witness ==
    /\ pc = "done"
    /\ StartInNoFly
    /\ end_node # None
    /\ \E e \in EdgeSet : end_node \in {e.u, e.v}
    /\ outcome = "not_added"

\* C8: with both end points added and no path between them the request
\* reports "no path" (not "not added", not the unexpected error) and writes no
\* route; "no path" is reported in no other case.
C8_NoPathOutcome ==
    /\ (pc = "done" /\ start_node # None /\ end_node # None
           /\ end_node \notin Reach(G, {start_node}))
          => /\ outcome = "no_path"
             /\ outcome \notin {"not_added", "unexpected_error", "route_saved"}
             /\ route_csv = Nothing
             /\ shortest_path = Nothing
    /\ outcome = "no_path"
          => /\ start_node # None /\ end_node # None
             /\ end_node \notin Reach(G, {start_node})

\* C8 witness: Start and End each have an edge to the graph, yet nothing
\* connects them, and the request ended "no path".
C8_Witness ==
    /\ pc = "done" /\ outcome = "no_path"
    /\ \E e \in EdgeSet : start_node \in {e.u, e.v}
    /\ \E e \in EdgeSet : end_node \in {e.u, e.v}

\* C9: when the graph connects Start to End a path is returned; it starts at
\* the start node, ends at the end node, follows edges of the graph, and no
\* start-to-end path of the graph weighs less.
C9_ShortestPath ==
    /\ (pc = "done" /\ start_node # None /\ end_node # None
           /\ end_node \in Reach(G, {start_node}))
          => outcome = "route_saved"
    /\ outcome = "route_saved"
          => /\ shortest_path[1] = start_node
             /\ shortest_path[Len(shortest_path)] = end_node
             /\ \A i \in 1..(Len(shortest_path) - 1) :
                   HasEdge(G, shortest_path[i], shortest_path[i + 1])
             /\ \A q \in PathsFrom(G, <<start_node>>, end_node) :
                   PathWeight(G, shortest_path) <= PathWeight(G, q)

\* C9 witness: a route was computed although the graph holds another
\* start-to-end path with fewer edges and a larger weight.
C9_Witness ==
    /\ outcome = "route_saved"
    /\ \E q \in PathsFrom(G, <<start_node>>, end_node) :
          /\ Len(q) < Len(shortest_path)
          /\ PathWeight(G, q) > PathWeight(G, shortest_path)

\* C10: the route output has one row per node of the path, in path order; row
\* k is (label, pos[node][1], pos[node][0]) with the labels Start, Charging
\* Station {id}, End; the first and the last row carry the latitude and the
\* longitude entered for Start and End.
C10_RouteRows ==
    outcome = "route_saved" =>
        /\ Len(route_csv) = Len(shortest_path)
        /\ \A k \in 1..Len(shortest_path) :
              route_csv[k] =
                  [label |-> IF k = 1 THEN "Start"
                             ELSE IF k = Len(shortest_path) THEN "End"
                             ELSE <<"Charging Station", shortest_path[k]>>,
                   lat |-> G.pos[shortest_path[k]][2],
                   longitude |-> G.pos[shortest_path[k]][1]]
        /\ <<route_csv[1].lat, route_csv[1].longitude>> = start_in
        /\ <<route_csv[Len(route_csv)].lat, route_csv[Len(route_csv)].longitude>> = end_in

\* C10 witness: a route through two charging stations was written, for start
\* and end points that differ.
C10_Witness ==
    /\ outcome = "route_saved"
    /\ Len(route_csv) >= 4
    /\ start_in[1] # start_in[2]
    /\ start_in # end_in

\* ------------------------------------- calculate_edge_weight on its own
\* end points of the lines: half-degree steps on two parallels half a degree
\* apart, from the origin eastwards
WeightPoints == {<<32 * x, 32 * y>> : x \in 0..(2 * WeightSpan), y \in 0..1}

\* open space for the lines: none, or a region around the origin
WeightOpenSpace == {{}, {Rect(-16, -16, 16, 48)}}

\* a call of calculate_edge_weight: avoidance regions at two places, a road
\* along the lines and one crossing them, buildings, open space
InitWeights ==
    /\ pc = "calculate_edge_weight"
    /\ python_sum \in PythonSums
    /\ policy = "advanced"
    /\ drone_range = 1560000
    /\ health_facilities = <<>>
    /\ no_fly_zones = {}
    /\ avoidance_zones \in {{}, {Rect(16, 16, 48, 48)}, {Rect(144, 16, 176, 48)}}
    /\ roads \in {{}, {Rect(0, 16, 64 * WeightSpan, 16)}, {Rect(80, -16, 80, 48)}}
    /\ buildings \in {{}, {Rect(48, -16, 80, 0)}}
    /\ open_space \in WeightOpenSpace
    /\ graph_file = <<>>
    /\ G = EmptyGraph
    /\ start_in = Nothing
    /\ end_in = Nothing
    /\ start_node = None
    /\ end_node = None
    /\ shortest_path = Nothing
    /\ route_csv = Nothing
    /\ outcome = "running"
    /\ \E a, b \in WeightPoints : weighed_line = LineString(a, b)
    /\ weighed_segments = Nothing
    /\ total_weight = 0

\* calculate_edge_weight(line, roads_gdf, buildings_gdf, open_space_gdf,
\* avoidance_zones_gdf): segments = segment_edge(line), and the total it
\* returns for these segments
CalculateEdgeWeight ==
    /\ pc = "calculate_edge_weight"
    /\ weighed_segments' = segment_edge(weighed_line)
    /\ total_weight' = SegmentsWeight(weighed_segments', roads, buildings, open_space,
                                      avoidance_zones)
    /\ pc' = "weighed"
    /\ UNCHANGED <<weighed_line, graph_file, policy, python_sum, drone_range, health_facilities,
                   no_fly_zones, avoidance_zones, roads, buildings, open_space, G,
                   start_in, end_in, start_node, end_node, shortest_path, route_csv,
                   outcome>>

NextWeights == CalculateEdgeWeight

SpecWeights == InitWeights /\ [][NextWeights]_vars

\* ------------------------------------- create_and_save_graph on long lines
\* facilities degrees apart: a lattice of three columns WideLonStep apart on
\* the equator and on the parallel WideLat
WidePoints == {<<WideLonStep * x, WideLat * y>> : x \in 0..2, y \in 0..1}

\* facility tables of up to MaxFacilities rows at distinct points of the wide
\* lattice, ordered as the tables of FacilityTables
WideTables ==
    UNION {{[i \in 1..n |-> FacilityRow(f[i])] :
                f \in {h \in [1..n -> WidePoints] :
                          \A i, j \in 1..n : i < j => PointBefore(h[i], h[j])}} :
           n \in 0..MaxFacilities}

\* ranges in centimetres: 170 km, which is a step along a parallel (166.98 km)
\* and not a diagonal step (175.9 km), and 340 km, which is every pair; no-fly
\* sets: none, or a zone around the middle facility position of the equator;
\* avoidance sets: none, or a zone between the parallels near the western
\* column
InitWide ==
    /\ pc = "create_graph"
    /\ python_sum \in PythonSums
    /\ policy \in {"simple", "advanced"}
    /\ drone_range \in {17000000, 34000000}
    /\ health_facilities \in WideTables
    /\ no_fly_zones \in {{}, {Rect(80, -16, 112, 16)}}
    /\ avoidance_zones \in {{}, {Rect(16, 16, 48, 48)}}
    /\ roads = {}
    /\ buildings = {}
    /\ open_space \in IF policy = "advanced" THEN WeightOpenSpace ELSE {{}}
    /\ graph_file = <<>>
    /\ G = EmptyGraph
    /\ start_in = Nothing
    /\ end_in = Nothing
    /\ start_node = None
    /\ end_node = None
    /\ shortest_path = Nothing
    /\ route_csv = Nothing
    /\ outcome = "running"
    /\ weighed_line = Nothing
    /\ weighed_segments = Nothing
    /\ total_weight = 0

NextWide == CreateGraph

\* the graph is built for facilities whose lines are cut into segments
SpecWide == InitWide /\ [][NextWide]_vars

\* the layers in the order calculate_segment_weight tests them, and the factor
\* of each
LayerOrder == <<"roads", "buildings", "open_space", "avoidance">>
LayerFactor ==
    [roads |-> RoadFactor, buildings |-> BuildingFactor, open_space |-> OpenSpaceFactor,
     avoidance |-> AvoidanceFactor]
Layer(l) ==
    CASE l = "roads" -> roads
      [] l = "buildings" -> buildings
      [] l = "open_space" -> open_space
      [] l = "avoidance" -> avoidance_zones

\* the layers a segment intersects
LayersHit(seg) ==
    {l \in {LayerOrder[k] : k \in 1..Len(LayerOrder)} : SegmentIntersects(Layer(l), seg)}

\* the double w multiplied by the factors of the layers of S, one after the
\* other from layer k of LayerOrder on (a layer not in S leaves w as it is)
RECURSIVE TimesFactors(_, _, _)
TimesFactors(w, S, k) ==
    IF k > Len(LayerOrder) THEN w
    ELSE TimesFactors(IF LayerOrder[k] \in S THEN FloatMul(w, LayerFactor[LayerOrder[k]]) ELSE w,
                      S, k + 1)

\* C12: the weight of a sub-segment is its length times the product of the
\* factors of all the layers it intersects (roads 1.5, buildings 1, open space
\* 0.8, avoidance 3), every intersected layer applied, and the edge weight is
\* the sum over the sub-segments (products in doubles, taken in the order of
\* the layers, and the sum as sum() of the interpreter forms it over the
\* sub-segments in their order).
C12_SegmentWeightProduct ==
    pc = "weighed" =>
        total_weight =
            sum([i \in 1..Len(weighed_segments) |->
                   TimesFactors(weighed_segments[i].length,
                                LayersHit(weighed_segments[i]), 1)])

\* C12 witness: a line of several sub-segments was weighed; one sub-segment
\* intersects a road and an avoidance region and open space at once, and
\* another one intersects a different set of layers.
C12_Witness ==
    /\ pc = "weighed"
    /\ Len(weighed_segments) >= 2
    /\ \E i, j \in 1..Len(weighed_segments) :
          /\ {"roads", "open_space", "avoidance"} \subseteq LayersHit(weighed_segments[i])
          /\ LayersHit(weighed_segments[j]) # LayersHit(weighed_segments[i])
          /\ LayersHit(weighed_segments[j]) # {}

\* the weighed line taken from its end point to its start point
ReversedLine == LineString(weighed_line.b, weighed_line.a)

\* C13: the weight of the line A->B equals the weight of the line B->A for the
\* same layers; sub-segment i of one direction covers the stretch of
\* sub-segment N-1-i of the other.
C13_DirectionInvariant ==
    pc = "weighed" =>
        LET back == segment_edge(ReversedLine)
            n == Len(weighed_segments)
        IN  /\ Len(back) = n
            /\ \A i \in 1..n :
                  /\ back[n + 1 - i].a = weighed_segments[i].b
                  /\ back[n + 1 - i].b = weighed_segments[i].a
            /\ total_weight = calculate_edge_weight(ReversedLine, roads, buildings,
                                                    open_space, avoidance_zones)

\* the geodesic distance between the facilities of rows i and j of the table
FacilityDistance(i, j) ==
    Geodesic(<<health_facilities[i].latitude, health_facilities[i].longitude>>,
             <<health_facilities[j].latitude, health_facilities[j].longitude>>)

\* the geodesic distance between an entered <<lat, lon>> and the facility of row k
PointDistance(entered, k) ==
    Geodesic(entered, <<health_facilities[k].latitude, health_facilities[k].longitude>>)

\* three facilities A, B, C (rows 1, 2, 3) on one straight line, B between
ThreeOnALine ==
    /\ Len(health_facilities) = 3
    /\ Cross(Geometry(health_facilities[1]), Geometry(health_facilities[2]),
             Geometry(health_facilities[3])) = 0

\* the entered point is within range of facility k and nearer to it than to
\* any other facility
Near(entered, k) ==
    /\ entered # Nothing
    /\ PointDistance(entered, k) <= drone_range
    /\ \A j \in 1..Len(health_facilities) :
          j # k => PointDistance(entered, k) < PointDistance(entered, j)

\* the sum of the geodesic distances of the consecutive nodes of a path
PathGeodesic(g, path) ==
    SumInt([i \in 1..(Len(path) - 1) |->
              Geodesic(<<g.pos[path[i]][2], g.pos[path[i]][1]>>,
                       <<g.pos[path[i + 1]][2], g.pos[path[i + 1]][1]>>)])

\* C14 as claimed: simple policy, three facilities A, B, C on a line with all
\* pairwise distances (A-C too) within range, no no-fly or avoidance region,
\* Start near A and End near C: the path is [Start, A, B, C, End] and weighs
\* the sum of the geodesic distances of its consecutive nodes.
C14_LinePathThroughAll ==
    (/\ pc = "done" /\ policy = "simple"
     /\ ThreeOnALine
     /\ \A i, j \in 1..3 : FacilityDistance(i, j) <= drone_range
     /\ no_fly_zones = {} /\ avoidance_zones = {}
     /\ Near(start_in, 1) /\ Near(end_in, 3))
        => /\ shortest_path = <<start_node, 0, 1, 2, end_node>>
           /\ PathWeight(G, shortest_path) = PathGeodesic(G, shortest_path)

\* C14 amended: as above, but with A-B and B-C within range and A-C beyond
\* it, Start within range of A only and End within range of C only: the path
\* is [Start, A, B, C, End] and weighs the sum of the geodesic distances of its
\* consecutive nodes.
C14_ChainPath ==
    (/\ pc = "done" /\ policy = "simple"
     /\ ThreeOnALine
     /\ FacilityDistance(1, 2) <= drone_range /\ FacilityDistance(2, 3) <= drone_range
     /\ FacilityDistance(1, 3) > drone_range
     /\ no_fly_zones = {} /\ avoidance_zones = {}
     /\ Near(start_in, 1) /\ Near(end_in, 3)
     /\ \A j \in {2, 3} : PointDistance(start_in, j) > drone_range
     /\ \A j \in {1, 2} : PointDistance(end_in, j) > drone_range)
        => /\ shortest_path = <<start_node, 0, 1, 2, end_node>>
           /\ PathWeight(G, shortest_path) = PathGeodesic(G, shortest_path)

\* C14 witness: the request is over for such a chain of three facilities, with
\* Start and End entered away from A and C, and the route went through all.
C14_Witness ==
    /\ pc = "done" /\ policy = "simple"
    /\ ThreeOnALine
    /\ FacilityDistance(1, 2) <= drone_range /\ FacilityDistance(2, 3) <= drone_range
    /\ FacilityDistance(1, 3) > drone_range
    /\ no_fly_zones = {} /\ avoidance_zones = {}
    /\ Near(start_in, 1) /\ Near(end_in, 3)
    /\ \A j \in {2, 3} : PointDistance(start_in, j) > drone_range
    /\ \A j \in {1, 2} : PointDistance(end_in, j) > drone_range
    /\ PointDistance(start_in, 1) > 0 /\ PointDistance(end_in, 3) > 0
    /\ Len(shortest_path) = 5
    /\ outcome = "route_saved"

\* the straight line between the facilities of rows i and j of the table
FacilityLine(i, j) == LineString(Geometry(health_facilities[i]), Geometry(health_facilities[j]))

\* C15: in the graph that GraphBuilder produces two distinct facilities are
\* joined by an edge if and only if their geodesic distance is at most the
\* range (equality included) and their line intersects no no-fly region; no
\* pair has two edges and no edge is a self-loop.
C15_EdgeIffInRangeAndClear ==
    pc = "get_coordinates" =>
        /\ \A i, j \in 1..Len(health_facilities) :
              i # j =>
                  (HasEdge(G, i - 1, j - 1)
                     <=> /\ FacilityDistance(i, j) <= drone_range
                         /\ ~ Intersects(no_fly_zones, FacilityLine(i, j)))
        /\ \A e \in EdgeSet : e.u # e.v
        /\ \A a, b \in 1..Len(G.edges) :
              a # b => {G.edges[a].u, G.edges[a].v} # {G.edges[b].u, G.edges[b].v}

\* C15 witness: the built graph joins a pair exactly at the range, leaves out
\* a pair beyond it, and leaves out a pair within range whose line meets a
\* no-fly region although neither facility is inside one.
C15_Witness ==
    /\ pc = "get_coordinates"
    /\ \E i, j \in 1..Len(health_facilities) :
          FacilityDistance(i, j) = drone_range /\ HasEdge(G, i - 1, j - 1)
    /\ \E i, j \in 1..Len(health_facilities) :
          FacilityDistance(i, j) > drone_range /\ ~ HasEdge(G, i - 1, j - 1)
    /\ \E i, j \in 1..Len(health_facilities) :
          /\ i # j
          /\ FacilityDistance(i, j) <= drone_range
          /\ {i - 1, j - 1} \subseteq G.nodes
          /\ ~ HasEdge(G, i - 1, j - 1)

\* line.length < segment_length (one degree)
ShorterThanSegment(l) ==
    (l.b[1] - l.a[1]) * (l.b[1] - l.a[1]) + (l.b[2] - l.a[2]) * (l.b[2] - l.a[2])
        < UnitsPerDegree * UnitsPerDegree

\* C16: under the segmented policy a line shorter than segment_length is cut
\* into zero segments and weighs 0, and the builder and the inserter still add
\* its edge, with weight 0, when it is within range and meets no no-fly region
\* (looked at after the build and after each insertion).
C16_ShortLineZeroWeight ==
    (policy = "advanced" /\ pc \in {"get_coordinates", "add_end", "route"}) =>
        /\ \A e \in EdgeSet :
              ShorterThanSegment(EdgeLine(e)) =>
                  segment_edge(EdgeLine(e)) = <<>> /\ e.weight = 0
        /\ \A u \in G.nodes, f \in FacilityNodes \cap G.nodes :
              LET l == LineString(G.pos[u], G.pos[f])
              IN  (/\ u # f
                   /\ ShorterThanSegment(l)
                   /\ Geodesic(<<G.pos[u][2], G.pos[u][1]>>, <<G.pos[f][2], G.pos[f][1]>>)
                         <= drone_range
                   /\ ~ Intersects(no_fly_zones, l))
                      => HasEdge(G, u, f) /\ EdgeWeight(G, u, f) = 0

\* C16 witness: the segmented policy built a graph and inserted Start; a short
\* facility-facility edge and a short Start edge (not of length 0) that cross
\* the road weigh 0.
C16_Witness ==
    /\ policy = "advanced" /\ pc = "add_end" /\ start_node # None
    /\ \E e \in EdgeSet :
          /\ {e.u, e.v} \subseteq FacilityNodes
          /\ ShorterThanSegment(EdgeLine(e)) /\ G.pos[e.u] # G.pos[e.v]
          /\ Intersects(roads, EdgeLine(e))
          /\ e.weight = 0
    /\ \E e \in EdgeSet :
          /\ start_node \in {e.u, e.v}
          /\ ShorterThanSegment(EdgeLine(e)) /\ G.pos[e.u] # G.pos[e.v]
          /\ Intersects(roads, EdgeLine(e))
          /\ e.weight = 0

\* C17: once the graph is built, and after every successful insertion, every
\* node has a pos, equal to (longitude, latitude) of its facility or of the
\* point entered for it.
C17_EveryNodeHasPos ==
    pc # "create_graph" =>
        /\ DOMAIN G.pos = G.nodes
        /\ \A n \in G.nodes :
              /\ n \in DOMAIN G.pos
              /\ G.pos[n] =
                    IF n = start_node THEN <<start_in[2], start_in[1]>>
                    ELSE IF n = end_node THEN <<end_in[2], end_in[1]>>
                    ELSE <<health_facilities[n + 1].longitude,
                           health_facilities[n + 1].latitude>>

\* C17 witness: both insertions succeeded on a graph in which a facility was
\* first created as the far end idx2 of an edge of an earlier row.
C17_Witness ==
    /\ pc = "route" /\ start_node # None /\ end_node # None
    /\ \E e \in EdgeSet :
          /\ {e.u, e.v} \subseteq FacilityNodes
          /\ e.u < e.v
    /\ \E e \in EdgeSet : end_node \in {e.u, e.v}
    /\ start_in # end_in

\* a builder that evaluates each unordered pair once: the inner loop of row
\* idx1 starts behind it (idx2 > idx1), everything else as in
\* create_and_save_graph
RECURSIVE BuildOuterOnce(_, _)
BuildOuterOnce(g, k1) ==
    IF k1 > Len(health_facilities) THEN g
    ELSE LET row1 == health_facilities[k1]
             g1 == AddNode(g, k1 - 1, <<row1.longitude, row1.latitude>>)
         IN  IF Contains(no_fly_zones, Geometry(row1))
             THEN BuildOuterOnce(g, k1 + 1)
             ELSE BuildOuterOnce(
                    IF policy = "simple" THEN SimpleBuildInner(g1, k1, k1 + 1)
                    ELSE AdvancedBuildInner(g1, k1, k1 + 1),
                    k1 + 1)

\* C18: a builder that prices each unordered pair of facilities once (i < j
\* only) yields the node set, the edge set and the edge weights of the builder
\* that evaluates both (i, j) and (j, i), the second write replacing the first.
C18_OncePerPairEquivalent ==
    pc = "get_coordinates" =>
        LET once == BuildOuterOnce(EmptyGraph, 1)
        IN  /\ once.nodes = G.nodes
            /\ once.pos = G.pos
            /\ \A u, v \in G.nodes : HasEdge(once, u, v) <=> HasEdge(G, u, v)
            /\ \A u, v \in G.nodes :
                  HasEdge(G, u, v) => EdgeWeight(once, u, v) = EdgeWeight(G, u, v)

\* the edges of a graph as unordered pairs with their weights
WeightedEdges(g) ==
    {[ends |-> {g.edges[i].u, g.edges[i].v}, weight |-> g.edges[i].weight] :
        i \in 1..Len(g.edges)}

\* C19: a successful add_node_to_graph adds exactly one node and only edges at
\* that node: the nodes that were there, their attributes, and the existence
\* and weight of every edge between them stay as they were (inserting End
\* changes no edge of Start).
C19_InsertFrame ==
    [][(InsertStep /\ Returned # None)
          => /\ Returned \notin G.nodes
             /\ G'.nodes = G.nodes \cup {Returned}
             /\ \A n \in DOMAIN G.pos : G'.pos[n] = G.pos[n]
             /\ \A n \in DOMAIN G.name : G'.name[n] = G.name[n]
             /\ DOMAIN G'.name = (DOMAIN G.name) \cup {Returned}
             /\ WeightedEdges(G) \subseteq WeightedEdges(G')
             /\ \A e \in WeightedEdges(G') \ WeightedEdges(G) : Returned \in e.ends]_vars

\* C19 witness: End was inserted and connected after Start, and Start has an
\* edge to a facility that End is connected to as well.
C19_Witness ==
    /\ pc = "route" /\ start_node # None /\ end_node # None
    /\ \E f \in FacilityNodes :
          HasEdge(G, start_node, f) /\ HasEdge(G, end_node, f)
    /\ \E e \in EdgeSet : {e.u, e.v} \subseteq FacilityNodes
    /\ \E e \in EdgeSet : e.weight > 0 /\ start_node \in {e.u, e.v}

\* C11: in a routing request the nodes without a position are removed from the
\* graph before the shortest path is computed, so the computed path holds no
\* node without a position (every node of it is a node of the graph with pos).
C11_PathNodesHavePos ==
    shortest_path # Nothing =>
        \A i \in 1..Len(shortest_path) :
            shortest_path[i] \in G.nodes /\ shortest_path[i] \in DOMAIN G.pos

\* C20: in every routing request, also one that loads a graph pickled by an
\* earlier run with another range, every edge of the graph the shortest path is
\* computed on joins two positions whose geodesic distance is at most the range
\* entered for this request.
C20_EdgesWithinCurrentRange ==
    pc = "route" =>
        \A e \in EdgeSet :
            (e.u \in DOMAIN G.pos /\ e.v \in DOMAIN G.pos) => EdgeDistance(e) <= drone_range

\* the dataset row indices of the facility table, excluded facilities included
FacilityIds == {k - 1 : k \in 1..Len(health_facilities)}

\* C21: the id that add_node_to_graph gives an ad-hoc node is never the row
\* index of a facility of the table, facilities that were kept out of the
\* graph for lying in a no-fly region included.
C21_AdHocIdNotFacilityId ==
    \A a \in {start_node, end_node} \ {None} : a \notin FacilityIds

====
